---------------------------- MODULE Spec2Model ----------------------------
(***************************************************************************)
(* The three screenshot-capture scripts of promo-video/scripts:            *)
(*   capture_all_screens.py, capture_screenshots.py, capture_leaderboard.py*)
(* Each is a linear procedure driving a headless browser.  The page (the   *)
(* target application) is the environment: what a call observes of it      *)
(* (visibility of a control, the current URL) and whether a call raises    *)
(* are inputs drawn at the call.                                           *)
(***************************************************************************)
EXTENDS Naturals, Sequences, FiniteSets

VARIABLES
    script,      \* which of the three scripts runs
    pc,          \* position of the script
    i,           \* number of completed iterations of `for i in range(5)`
    t,           \* index (1-based) of the current entry of `tabs`
    ret,         \* where dismiss_modal() returns to
    dirExists,   \* SCREENSHOT_DIR exists on disk
    files,       \* file name -> content ("none": no such file)
    browser,     \* "none" | "open" | "closed" (browser.close() returned)
    playwright,  \* "none" | "running" | "stopped": the `with sync_playwright()` block
    aborted,     \* "" or the step whose exception left capture() uncaught
    log,         \* what was printed, in order
    written,     \* files written by page.screenshot in this run, in order
    anyFail,     \* some browser call of this run raised
    step         \* the current step: its kind, its file, the file's content
                 \* when the step began, the selectors the page showed when
                 \* the step picked among candidates, the calls made so far

vars == <<script, pc, i, t, ret, dirExists, files, browser, playwright,
          aborted, log, written, anyFail, step>>

---------------------------------------------------------------------------
\* Program constants

Scripts == {"capture_all_screens", "capture_screenshots", "capture_leaderboard"}

\* for i in range(5)
ContinueAttempts == 5

\* tabs of capture_all_screens.capture
TabsAll ==
    << <<"home", "/(tabs)/home">>,
       <<"pick", "/(tabs)/pick">>,
       <<"stats", "/(tabs)/stats">>,
       <<"leaderboards", "/(tabs)/leaderboards">>,
       <<"discover", "/(tabs)/discover">> >>

\* tabs of capture_screenshots.capture_screenshots
TabsShots ==
    << <<"home", "/(tabs)/home">>,
       <<"pick", "/(tabs)/pick">>,
       <<"stats", "/(tabs)/stats">>,
       <<"leaderboards", "/(tabs)/leaderboards">> >>

Tabs(s) ==
    IF s = "capture_all_screens" THEN TabsAll
    ELSE IF s = "capture_screenshots" THEN TabsShots
    ELSE << >>

\* PngOf with the extension forgotten
PngOf_NoExtension(name) == name

\* f"{SCREENSHOT_DIR}/{name}.png"
PngOf(name) == name \o ".png"

\* every file any of the scripts can write into SCREENSHOT_DIR
FileNames ==
    {PngOf(TabsAll[k][1]) : k \in 1..Len(TabsAll)}
        \cup {"fighter-stats.png", "after_onboarding.png"}

\* candidate selectors of the exploratory flow, in the order the code tries them
EventSelectors == <<"[data-testid='event-card']", "text=UFC">>
FighterSelectors ==
    <<"text=Paddy Pimblett", "text=Gaethje", "[data-testid='fighter-name']">>

---------------------------------------------------------------------------
\* Helpers

Range(s) == {s[k] : k \in 1..Len(s)}

Ev(op, arg, res) == [op |-> op, arg |-> arg, res |-> res]

NoStep ==
    [kind |-> "none", file |-> "", before |-> "none", seen |-> {}, tr |-> << >>]

\* a step begins: remember the content its file has now
BeginStep(kind, file) ==
    [kind |-> kind, file |-> file,
     before |-> IF file \in FileNames THEN files[file] ELSE "none",
     seen |-> {}, tr |-> << >>]

Did(evs) == step' = [step EXCEPT !.tr = step.tr \o evs]

Printed(msgs) == log' = log \o msgs

\* An exception nothing catches leaves capture(): the `with` block is exited
\* (sync_playwright's __exit__ runs), browser.close() is not reached.
Uncaught(at) ==
    /\ aborted' = at
    /\ anyFail' = TRUE
    /\ playwright' = "stopped"
    /\ pc' = "done"

---------------------------------------------------------------------------
\* State after the interpreter has started the script, before its first line.
\* The directory is absent, or present and empty, or holds the files of an
\* earlier run.

Init ==
    /\ script \in Scripts
    /\ pc = "import"
    /\ i = 0
    /\ t = 1
    /\ ret = ""
    /\ \E d \in {"absent", "empty", "earlier_run"} :
          /\ dirExists = (d # "absent")
          /\ files = [f \in FileNames |->
                         IF d = "earlier_run" THEN "old" ELSE "none"]
    /\ browser = "none"
    /\ playwright = "none"
    /\ aborted = ""
    /\ log = << >>
    /\ written = << >>
    /\ anyFail = FALSE
    /\ step = NoStep

---------------------------------------------------------------------------
\* Module level: os.makedirs(SCREENSHOT_DIR, exist_ok=True), then capture()
\* enters `with sync_playwright() as p`.  capture_leaderboard.py imports os
\* and never calls makedirs.

MakeDirs ==
    /\ pc = "import"
    /\ script \in {"capture_all_screens", "capture_screenshots"}
    /\ dirExists' = TRUE
    /\ playwright' = "running"
    /\ pc' = "launch"
    /\ UNCHANGED <<script, i, t, ret, files, browser, aborted, log, written,
                   anyFail, step>>

StartLeaderboard ==
    /\ pc = "import"
    /\ script = "capture_leaderboard"
    /\ playwright' = "running"
    /\ pc' = "launch"
    /\ UNCHANGED <<script, i, t, ret, dirExists, files, browser, aborted, log,
                   written, anyFail, step>>

\* browser = p.chromium.launch(headless=True)
Launch ==
    /\ pc = "launch"
    /\ \/ /\ browser' = "open"
          /\ pc' = "new_context"
          /\ UNCHANGED <<playwright, aborted, anyFail>>
       \/ /\ Uncaught("launch")
          /\ UNCHANGED browser
    /\ UNCHANGED <<script, i, t, ret, dirExists, files, log, written, step>>

\* context = browser.new_context(...); page = context.new_page()
NewContext ==
    /\ pc = "new_context"
    /\ \/ /\ pc' = IF script = "capture_leaderboard" THEN "lb_goto" ELSE "goto_root"
          /\ UNCHANGED <<playwright, aborted, anyFail>>
       \/ Uncaught("new_context")
    /\ UNCHANGED <<script, i, t, ret, dirExists, files, browser, log, written,
                   step>>

---------------------------------------------------------------------------
\* Onboarding (capture_all_screens.py 19-52; capture_screenshots.py 19-52 is
\* the same text)

\* print("Navigating to app..."); page.goto("http://localhost:8081", timeout=30000)
GotoRoot ==
    /\ pc = "goto_root"
    /\ Printed(<<"Navigating to app...">>)
    /\ \/ /\ pc' = "wait_root"
          /\ step' = [BeginStep("onboarding", "") EXCEPT
                         !.tr = <<Ev("goto", "/", "ok")>>]
          /\ UNCHANGED <<playwright, aborted, anyFail>>
       \/ /\ Uncaught("goto_root")
          /\ UNCHANGED step
    /\ UNCHANGED <<script, i, t, ret, dirExists, files, browser, written>>

\* page.wait_for_load_state("networkidle"); time.sleep(2)
WaitRoot ==
    /\ pc = "wait_root"
    /\ \/ /\ pc' = "skip"
          /\ Did(<<Ev("wait", "networkidle", "ok"), Ev("sleep", "2", "ok")>>)
          /\ UNCHANGED <<playwright, aborted, anyFail>>
       \/ /\ Uncaught("wait_root")
          /\ UNCHANGED step
    /\ UNCHANGED <<script, i, t, ret, dirExists, files, browser, log, written>>

\* try: loc = page.locator(sel); if loc.is_visible(): loc.click(); time.sleep(d)
\* except: pass
\* The events of one such block, for each thing the page can do.  `seen` is
\* what is_visible() observes: "visible", "hidden" or "raised"; clickOk is
\* whether click() returns.
TryClick(sel, delay, seen, clickOk) ==
    IF seen = "visible"
    THEN IF clickOk
         THEN <<Ev("is_visible", sel, "visible"), Ev("click", sel, "ok"),
                Ev("sleep", delay, "ok")>>
         ELSE <<Ev("is_visible", sel, "visible"), Ev("click", sel, "raised")>>
    ELSE <<Ev("is_visible", sel, seen)>>

Raised(evs) == \E k \in 1..Len(evs) : evs[k].res = "raised"

\* what the page can answer to one try-click block; the click's outcome only
\* matters when the control was seen
PageAnswers ==
    {<<"hidden", TRUE>>, <<"raised", TRUE>>, <<"visible", TRUE>>,
     <<"visible", FALSE>>}

\* Skip without its try: a lookup or click that raises ends the run
Skip_NoTry ==
    /\ pc = "skip"
    /\ Printed(<<"Skipping onboarding...">>)
    /\ i' = 0
    /\ \E a \in PageAnswers :
          LET evs == TryClick("text=Skip", "1", a[1], a[2]) IN
          /\ Did(evs)
          /\ IF Raised(evs)
             THEN Uncaught("skip")
             ELSE pc' = "continue" /\ UNCHANGED <<playwright, aborted, anyFail>>
    /\ UNCHANGED <<script, t, ret, dirExists, files, browser, written>>

\* print("Skipping onboarding..."); try: skip = page.locator("text=Skip") ...
Skip ==
    /\ pc = "skip"
    /\ \E a \in PageAnswers :
          LET evs == TryClick("text=Skip", "1", a[1], a[2]) IN
          /\ Did(evs)
          /\ anyFail' = (anyFail \/ Raised(evs))
    /\ Printed(<<"Skipping onboarding...">>)
    /\ i' = 0
    /\ pc' = "continue"
    /\ UNCHANGED <<script, t, ret, dirExists, files, browser, playwright,
                   aborted, written>>

\* Continue leaving the loop (break) at the first attempt that finds no control
Continue_BreakWhenHidden ==
    /\ pc = "continue"
    /\ i < ContinueAttempts
    /\ \E a \in PageAnswers :
          LET evs == TryClick("text=CONTINUE", "0.8", a[1], a[2]) IN
          /\ Did(evs)
          /\ anyFail' = (anyFail \/ Raised(evs))
          /\ i' = IF a[1] = "hidden" THEN ContinueAttempts ELSE i + 1
          /\ pc' = IF a[1] # "hidden" /\ i + 1 < ContinueAttempts
                   THEN "continue" ELSE "get_started"
    /\ UNCHANGED <<script, t, ret, dirExists, files, browser, playwright,
                   aborted, log, written>>

\* for i in range(5): try: cont = page.locator("text=CONTINUE") ...
Continue ==
    /\ pc = "continue"
    /\ i < ContinueAttempts
    /\ \E a \in PageAnswers :
          LET evs == TryClick("text=CONTINUE", "0.8", a[1], a[2]) IN
          /\ Did(evs)
          /\ anyFail' = (anyFail \/ Raised(evs))
    /\ i' = i + 1
    /\ pc' = IF i + 1 < ContinueAttempts THEN "continue" ELSE "get_started"
    /\ UNCHANGED <<script, t, ret, dirExists, files, browser, playwright,
                   aborted, log, written>>

\* try: get_started = page.locator("text=GET STARTED"); if visible: print, click
GetStarted ==
    /\ pc = "get_started"
    /\ \E a \in PageAnswers :
          LET evs == TryClick("text=GET STARTED", "2", a[1], a[2]) IN
          /\ Did(evs)
          /\ anyFail' = (anyFail \/ Raised(evs))
          /\ IF a[1] = "visible"
             THEN Printed(<<"Clicking GET STARTED...">>)
             ELSE UNCHANGED log
    /\ t' = 1
    /\ pc' = IF script = "capture_screenshots" THEN "after_onboarding"
             ELSE "tab_goto"
    /\ UNCHANGED <<script, i, ret, dirExists, files, browser, playwright,
                   aborted, written>>

---------------------------------------------------------------------------
\* page.screenshot(path=...) returned: the file holds this step's picture.
\* (The call writes the file, creating missing parent directories itself.)
Shoot(file) ==
    /\ files' = [files EXCEPT ![file] = step.kind]
    /\ written' = Append(written, file)
    /\ dirExists' = TRUE

\* capture_screenshots.py 54-55, outside any try:
\* print(f"After onboarding URL: {page.url}"); page.screenshot(after_onboarding.png)
AfterOnboarding ==
    /\ pc = "after_onboarding"
    /\ Printed(<<"After onboarding URL: ">>)
    /\ \/ /\ step' = [BeginStep("after_onboarding", "after_onboarding.png")
                         EXCEPT !.tr = <<Ev("screenshot", "after_onboarding.png", "ok")>>]
          /\ Shoot("after_onboarding.png")
          /\ pc' = "shots_goto"
          /\ UNCHANGED <<playwright, aborted, anyFail>>
       \/ /\ step' = [BeginStep("after_onboarding", "after_onboarding.png")
                         EXCEPT !.tr = <<Ev("screenshot", "after_onboarding.png", "raised")>>]
          /\ Uncaught("after_onboarding")
          /\ UNCHANGED <<files, written, dirExists>>
    /\ UNCHANGED <<script, i, t, ret, browser>>

---------------------------------------------------------------------------
\* The named-route loops

TabName == Tabs(script)[t][1]
TabRoute == Tabs(script)[t][2]

\* the loop goes on to its next entry, or the code after the loop runs
NextTab(after) ==
    /\ t' = t + 1
    /\ pc' = IF t + 1 <= Len(Tabs(script))
             THEN (IF script = "capture_screenshots" THEN "shots_goto" ELSE "tab_goto")
             ELSE after

\* TabFailed leaving the loop (break) instead of going on to the next route
TabFailed_Break(after) ==
    /\ Printed(<<"Navigating to " \o TabName \o "...", "Failed: ">>)
    /\ anyFail' = TRUE
    /\ t' = t + 1
    /\ pc' = after

\* except Exception as e: print(f"  x Failed: {e}")
TabFailed(after) ==
    /\ Printed(<<"Navigating to " \o TabName \o "...", "Failed: ">>)
    /\ anyFail' = TRUE
    /\ NextTab(after)

\* capture_all_screens.py 78-81
TabGoto ==
    /\ pc = "tab_goto"
    /\ \/ /\ step' = [BeginStep("tab", PngOf(TabName)) EXCEPT
                         !.tr = <<Ev("goto", TabRoute, "ok")>>]
          /\ Printed(<<"Navigating to " \o TabName \o "...">>)
          /\ pc' = "tab_wait"
          /\ UNCHANGED <<t, anyFail>>
       \/ /\ step' = [BeginStep("tab", PngOf(TabName)) EXCEPT
                         !.tr = <<Ev("goto", TabRoute, "raised")>>]
          /\ TabFailed("fx_goto")
    /\ UNCHANGED <<script, i, ret, dirExists, files, browser, playwright,
                   aborted, written>>

\* capture_all_screens.py 82-84: wait, time.sleep(2), dismiss_modal()
TabWait ==
    /\ pc = "tab_wait"
    /\ \/ /\ Did(<<Ev("wait", "networkidle", "ok"), Ev("sleep", "2", "ok")>>)
          /\ pc' = "dm_not_now"
          /\ ret' = "tab_shot"
          /\ UNCHANGED <<t, log, anyFail>>
       \/ /\ Did(<<Ev("wait", "networkidle", "raised")>>)
          /\ log' = Append(log, "Failed: ")
          /\ anyFail' = TRUE
          /\ NextTab("fx_goto")
          /\ UNCHANGED ret
    /\ UNCHANGED <<script, i, dirExists, files, browser, playwright, aborted,
                   written>>

\* capture_all_screens.py 85-88
TabScreenshot ==
    /\ pc = "tab_shot"
    /\ \/ /\ Did(<<Ev("screenshot", PngOf(TabName), "ok")>>)
          /\ Shoot(PngOf(TabName))
          /\ log' = Append(log, "Captured " \o TabName)
          /\ UNCHANGED anyFail
       \/ /\ Did(<<Ev("screenshot", PngOf(TabName), "raised")>>)
          /\ log' = Append(log, "Failed: ")
          /\ anyFail' = TRUE
          /\ UNCHANGED <<files, written, dirExists>>
    /\ NextTab("fx_goto")
    /\ UNCHANGED <<script, i, ret, browser, playwright, aborted>>

\* capture_screenshots.py 65-68
ShotsGoto ==
    /\ pc = "shots_goto"
    /\ \/ /\ step' = [BeginStep("tab", PngOf(TabName)) EXCEPT
                         !.tr = <<Ev("goto", TabRoute, "ok")>>]
          /\ Printed(<<"Navigating to " \o TabName \o "...">>)
          /\ pc' = "shots_wait"
          /\ UNCHANGED <<t, anyFail>>
       \/ /\ step' = [BeginStep("tab", PngOf(TabName)) EXCEPT
                         !.tr = <<Ev("goto", TabRoute, "raised")>>]
          /\ TabFailed("close")
    /\ UNCHANGED <<script, i, ret, dirExists, files, browser, playwright,
                   aborted, written>>

\* capture_screenshots.py 69-70: wait, time.sleep(3)
ShotsWait ==
    /\ pc = "shots_wait"
    /\ \/ /\ Did(<<Ev("wait", "networkidle", "ok"), Ev("sleep", "3", "ok")>>)
          /\ pc' = "shots_shot"
          /\ UNCHANGED <<t, log, anyFail>>
       \/ /\ Did(<<Ev("wait", "networkidle", "raised")>>)
          /\ log' = Append(log, "Failed: ")
          /\ anyFail' = TRUE
          /\ NextTab("close")
    /\ UNCHANGED <<script, i, ret, dirExists, files, browser, playwright,
                   aborted, written>>

\* capture_screenshots.py 71-74
ShotsScreenshot ==
    /\ pc = "shots_shot"
    /\ \/ /\ Did(<<Ev("screenshot", PngOf(TabName), "ok")>>)
          /\ Shoot(PngOf(TabName))
          /\ log' = Append(log, "Captured " \o TabName)
          /\ UNCHANGED anyFail
       \/ /\ Did(<<Ev("screenshot", PngOf(TabName), "raised")>>)
          /\ log' = Append(log, "Failed: ")
          /\ anyFail' = TRUE
          /\ UNCHANGED <<files, written, dirExists>>
    /\ NextTab("close")
    /\ UNCHANGED <<script, i, ret, browser, playwright, aborted>>

---------------------------------------------------------------------------
\* dismiss_modal() of capture_all_screens.py

\* try: not_now = page.locator("text=NOT NOW"); if visible: click; sleep(0.5)
DismissNotNow ==
    /\ pc = "dm_not_now"
    /\ \E a \in PageAnswers :
          LET evs == TryClick("text=NOT NOW", "0.5", a[1], a[2]) IN
          /\ Did(evs)
          /\ anyFail' = (anyFail \/ Raised(evs))
    /\ pc' = "dm_escape"
    /\ UNCHANGED <<script, i, t, ret, dirExists, files, browser, playwright,
                   aborted, log, written>>

\* DismissEscape without its try: a press that raises ends the run
DismissEscape_NoTry ==
    /\ pc = "dm_escape"
    /\ \/ /\ Did(<<Ev("press", "Escape", "ok"), Ev("sleep", "0.3", "ok")>>)
          /\ pc' = ret
          /\ UNCHANGED <<playwright, aborted, anyFail>>
       \/ /\ Did(<<Ev("press", "Escape", "raised")>>)
          /\ Uncaught("dm_escape")
    /\ UNCHANGED <<script, i, t, ret, dirExists, files, browser, log, written>>

\* DismissEscape pressing Escape only when Not Now was not clicked
DismissEscape_FallbackOnly ==
    /\ pc = "dm_escape"
    /\ IF \E k \in 1..Len(step.tr) :
             step.tr[k] = Ev("click", "text=NOT NOW", "ok")
       THEN UNCHANGED <<step, anyFail>>
       ELSE \/ /\ Did(<<Ev("press", "Escape", "ok"), Ev("sleep", "0.3", "ok")>>)
               /\ UNCHANGED anyFail
            \/ /\ Did(<<Ev("press", "Escape", "raised")>>)
               /\ anyFail' = TRUE
    /\ pc' = ret
    /\ UNCHANGED <<script, i, t, ret, dirExists, files, browser, playwright,
                   aborted, log, written>>

\* try: page.keyboard.press("Escape"); time.sleep(0.3)   except: pass
DismissEscape ==
    /\ pc = "dm_escape"
    /\ \/ /\ Did(<<Ev("press", "Escape", "ok"), Ev("sleep", "0.3", "ok")>>)
          /\ UNCHANGED anyFail
       \/ /\ Did(<<Ev("press", "Escape", "raised")>>)
          /\ anyFail' = TRUE
    /\ pc' = ret
    /\ UNCHANGED <<script, i, t, ret, dirExists, files, browser, playwright,
                   aborted, log, written>>

---------------------------------------------------------------------------
\* The exploratory flow of capture_all_screens.py (90-129)

\* event_card = page.locator("[data-testid='event-card']").first
\* if not event_card.is_visible(): event_card = page.locator("text=UFC").first
\* v: the selectors the page shows
PickEventCard(v) ==
    LET c1 == "[data-testid='event-card']"
    IN  IF c1 \notin v THEN "text=UFC" ELSE c1

\* PickFighterLink whose second test looks at the first locator again
PickFighterLink_RecheckFirst(v) ==
    LET f1 == "text=Paddy Pimblett"
        f2 == IF f1 \notin v THEN "text=Gaethje" ELSE f1
    IN  IF f1 \notin v THEN "[data-testid='fighter-name']" ELSE f2

\* fighter_link = page.locator("text=Paddy Pimblett").first
\* if not fighter_link.is_visible(): fighter_link = ...("text=Gaethje").first
\* if not fighter_link.is_visible(): fighter_link = ...("[data-testid='fighter-name']").first
PickFighterLink(v) ==
    LET f1 == "text=Paddy Pimblett"
        f2 == IF f1 \notin v THEN "text=Gaethje" ELSE f1
    IN  IF f2 \notin v THEN "[data-testid='fighter-name']" ELSE f2

\* except Exception as e: print(f"  x Could not capture fighter stats: {e}")
FxFailed ==
    /\ anyFail' = TRUE
    /\ pc' = "dl_goto"

\* 91-94
FxGoto ==
    /\ pc = "fx_goto"
    /\ \/ /\ step' = [BeginStep("explore", "fighter-stats.png") EXCEPT
                         !.tr = <<Ev("goto", "/(tabs)/pick", "ok")>>]
          /\ Printed(<<"Looking for fighter profile...">>)
          /\ pc' = "fx_wait"
          /\ UNCHANGED anyFail
       \/ /\ step' = [BeginStep("explore", "fighter-stats.png") EXCEPT
                         !.tr = <<Ev("goto", "/(tabs)/pick", "raised")>>]
          /\ Printed(<<"Looking for fighter profile...",
                       "Could not capture fighter stats: ">>)
          /\ FxFailed
    /\ UNCHANGED <<script, i, t, ret, dirExists, files, browser, playwright,
                   aborted, written>>

\* 95-97
FxWait ==
    /\ pc = "fx_wait"
    /\ \/ /\ Did(<<Ev("wait", "networkidle", "ok"), Ev("sleep", "2", "ok")>>)
          /\ pc' = "dm_not_now"
          /\ ret' = "fx_event"
          /\ UNCHANGED <<log, anyFail>>
       \/ /\ Did(<<Ev("wait", "networkidle", "raised")>>)
          /\ log' = Append(log, "Could not capture fighter stats: ")
          /\ FxFailed
          /\ UNCHANGED ret
    /\ UNCHANGED <<script, i, t, dirExists, files, browser, playwright, aborted,
                   written>>

\* One pick-and-click of the flow: the candidate `link` was chosen while the
\* page showed v; `if link.is_visible(): link.click(); time.sleep(2)`.
\* An is_visible() or the click may raise, which the flow's except catches.
PickAndClick(v, link, outcome, clicked, hidden) ==
    /\ outcome \in {"ok", "lookup_raised", "click_raised"}
    /\ IF outcome = "lookup_raised"
       THEN /\ Did(<<Ev("is_visible", link, "raised")>>)
            /\ log' = Append(log, "Could not capture fighter stats: ")
            /\ FxFailed
       ELSE /\ step' = [step EXCEPT
                  !.seen = step.seen \cup v,
                  !.tr = step.tr \o
                      (IF link \notin v
                       THEN <<Ev("is_visible", link, "hidden")>>
                       ELSE IF outcome = "ok"
                       THEN <<Ev("is_visible", link, "visible"),
                              Ev("click", link, "ok"), Ev("sleep", "2", "ok")>>
                       ELSE <<Ev("is_visible", link, "visible"),
                              Ev("click", link, "raised")>>)]
            /\ IF link \notin v
               THEN /\ outcome = "ok"
                    /\ pc' = hidden
                    /\ UNCHANGED <<log, anyFail>>
               ELSE IF outcome = "ok"
               THEN /\ pc' = clicked
                    /\ UNCHANGED <<log, anyFail>>
               ELSE /\ log' = Append(log, "Could not capture fighter stats: ")
                    /\ FxFailed

\* 100-107
FxPickEvent ==
    /\ pc = "fx_event"
    /\ \E v \in SUBSET Range(EventSelectors) :
       \E outcome \in {"ok", "lookup_raised", "click_raised"} :
          PickAndClick(v, PickEventCard(v), outcome, "fx_event_wait", "dl_goto")
    /\ UNCHANGED <<script, i, t, ret, dirExists, files, browser, playwright,
                   aborted, written>>

\* 108-109
FxEventWait ==
    /\ pc = "fx_event_wait"
    /\ \/ /\ Did(<<Ev("wait", "networkidle", "ok")>>)
          /\ log' = Append(log, "Navigated to event: ")
          /\ pc' = "fx_fighter"
          /\ UNCHANGED anyFail
       \/ /\ Did(<<Ev("wait", "networkidle", "raised")>>)
          /\ log' = Append(log, "Could not capture fighter stats: ")
          /\ FxFailed
    /\ UNCHANGED <<script, i, t, ret, dirExists, files, browser, playwright,
                   aborted, written>>

\* 113-122
FxPickFighter ==
    /\ pc = "fx_fighter"
    /\ \E v \in SUBSET Range(FighterSelectors) :
       \E outcome \in {"ok", "lookup_raised", "click_raised"} :
          PickAndClick(v, PickFighterLink(v), outcome, "fx_fighter_wait", "dl_goto")
    /\ UNCHANGED <<script, i, t, ret, dirExists, files, browser, playwright,
                   aborted, written>>

\* 123-125
FxFighterWait ==
    /\ pc = "fx_fighter_wait"
    /\ \/ /\ Did(<<Ev("wait", "networkidle", "ok")>>)
          /\ log' = Append(log, "Navigated to fighter: ")
          /\ pc' = "dm_not_now"
          /\ ret' = "fx_shot"
          /\ UNCHANGED anyFail
       \/ /\ Did(<<Ev("wait", "networkidle", "raised")>>)
          /\ log' = Append(log, "Could not capture fighter stats: ")
          /\ FxFailed
          /\ UNCHANGED ret
    /\ UNCHANGED <<script, i, t, dirExists, files, browser, playwright, aborted,
                   written>>

\* 126-129
FxScreenshot ==
    /\ pc = "fx_shot"
    /\ \/ /\ Did(<<Ev("screenshot", "fighter-stats.png", "ok")>>)
          /\ Shoot("fighter-stats.png")
          /\ log' = Append(log, "Captured fighter-stats")
          /\ pc' = "dl_goto"
          /\ UNCHANGED anyFail
       \/ /\ Did(<<Ev("screenshot", "fighter-stats.png", "raised")>>)
          /\ log' = Append(log, "Could not capture fighter stats: ")
          /\ FxFailed
          /\ UNCHANGED <<files, written, dirExists>>
    /\ UNCHANGED <<script, i, t, ret, browser, playwright, aborted>>

---------------------------------------------------------------------------
\* The deep-link step of capture_all_screens.py (131-143)

\* URLs the page can be at after page.goto(".../fighter/1"): the one asked
\* for, the same in another letter case, and two the application may
\* redirect to.  Each with its characters (the part after the host).
Urls == {"/fighter/1", "/Fighter/1", "/(tabs)/home", "/fight"}

UrlChars(u) ==
    CASE u = "/fighter/1"   -> <<"/", "f", "i", "g", "h", "t", "e", "r", "/", "1">>
      [] u = "/Fighter/1"   -> <<"/", "F", "i", "g", "h", "t", "e", "r", "/", "1">>
      [] u = "/(tabs)/home" -> <<"/", "(", "t", "a", "b", "s", ")", "/", "h", "o", "m", "e">>
      [] u = "/fight"       -> <<"/", "f", "i", "g", "h", "t">>

\* str.lower(), on the characters that occur
LowerChar(c) ==
    CASE c = "F" -> "f"
      [] OTHER   -> c

Lower(cs) == [k \in 1..Len(cs) |-> LowerChar(cs[k])]

\* needle in hay
Contains(hay, needle) ==
    \E o \in 0..Len(hay) :
        /\ o + Len(needle) <= Len(hay)
        /\ \A k \in 1..Len(needle) : hay[o + k] = needle[k]

\* UrlIsFighter looking for "fight"
UrlIsFighter_Typo(u) ==
    Contains(Lower(UrlChars(u)), <<"f", "i", "g", "h", "t">>)

\* "fighter" in page.url.lower()
UrlIsFighter(u) ==
    Contains(Lower(UrlChars(u)), <<"f", "i", "g", "h", "t", "e", "r">>)

\* except Exception as e: print(f"  Direct fighter URL failed: {e}")
DlFailed ==
    /\ anyFail' = TRUE
    /\ pc' = "close"

\* 132-135
DlGoto ==
    /\ pc = "dl_goto"
    /\ \/ /\ step' = [BeginStep("deeplink", "fighter-stats.png") EXCEPT
                         !.tr = <<Ev("goto", "/fighter/1", "ok")>>]
          /\ Printed(<<"Trying direct fighter URL...">>)
          /\ pc' = "dl_wait"
          /\ UNCHANGED anyFail
       \/ /\ step' = [BeginStep("deeplink", "fighter-stats.png") EXCEPT
                         !.tr = <<Ev("goto", "/fighter/1", "raised")>>]
          /\ Printed(<<"Trying direct fighter URL...", "Direct fighter URL failed: ">>)
          /\ DlFailed
    /\ UNCHANGED <<script, i, t, ret, dirExists, files, browser, playwright,
                   aborted, written>>

\* 136-139: wait, time.sleep(2), if "fighter" in page.url.lower(): dismiss_modal()
DlWait ==
    /\ pc = "dl_wait"
    /\ \/ \E u \in Urls :
            /\ Did(<<Ev("wait", "networkidle", "ok"), Ev("sleep", "2", "ok"),
                     Ev("url", u, "ok")>>)
            /\ IF UrlIsFighter(u)
               THEN pc' = "dm_not_now" /\ ret' = "dl_shot"
               ELSE pc' = "close" /\ UNCHANGED ret
            /\ UNCHANGED <<log, anyFail>>
       \/ /\ Did(<<Ev("wait", "networkidle", "raised")>>)
          /\ log' = Append(log, "Direct fighter URL failed: ")
          /\ DlFailed
          /\ UNCHANGED ret
    /\ UNCHANGED <<script, i, t, dirExists, files, browser, playwright, aborted,
                   written>>

\* 140-143
DlScreenshot ==
    /\ pc = "dl_shot"
    /\ \/ /\ Did(<<Ev("screenshot", "fighter-stats.png", "ok")>>)
          /\ Shoot("fighter-stats.png")
          /\ log' = Append(log, "Captured fighter-stats via direct URL")
          /\ pc' = "close"
          /\ UNCHANGED anyFail
       \/ /\ Did(<<Ev("screenshot", "fighter-stats.png", "raised")>>)
          /\ log' = Append(log, "Direct fighter URL failed: ")
          /\ DlFailed
          /\ UNCHANGED <<files, written, dirExists>>
    /\ UNCHANGED <<script, i, t, ret, browser, playwright, aborted>>

---------------------------------------------------------------------------
\* capture_leaderboard.py (18-42): nothing but the two dismissal blocks is
\* inside a try

\* print("Navigating to leaderboards..."); page.goto(..., timeout=15000)
LbGoto ==
    /\ pc = "lb_goto"
    /\ Printed(<<"Navigating to leaderboards...">>)
    /\ \/ /\ step' = [BeginStep("leaderboard", "leaderboards.png") EXCEPT
                         !.tr = <<Ev("goto", "/(tabs)/leaderboards", "ok")>>]
          /\ pc' = "lb_wait"
          /\ UNCHANGED <<playwright, aborted, anyFail>>
       \/ /\ Uncaught("lb_goto")
          /\ UNCHANGED step
    /\ UNCHANGED <<script, i, t, ret, dirExists, files, browser, written>>

\* page.wait_for_load_state("networkidle"); time.sleep(2)
LbWait ==
    /\ pc = "lb_wait"
    /\ \/ /\ Did(<<Ev("wait", "networkidle", "ok"), Ev("sleep", "2", "ok")>>)
          /\ pc' = "lb_not_now"
          /\ UNCHANGED <<playwright, aborted, anyFail>>
       \/ /\ Uncaught("lb_wait")
          /\ UNCHANGED step
    /\ UNCHANGED <<script, i, t, ret, dirExists, files, browser, log, written>>

\* try: not_now = ...; if visible: print("Dismissing modal..."); click; sleep(1)
LbNotNow ==
    /\ pc = "lb_not_now"
    /\ \E a \in PageAnswers :
          LET evs == TryClick("text=NOT NOW", "1", a[1], a[2]) IN
          /\ Did(evs)
          /\ anyFail' = (anyFail \/ Raised(evs))
          /\ IF a[1] = "visible"
             THEN Printed(<<"Dismissing modal...">>)
             ELSE UNCHANGED log
    /\ pc' = "lb_escape"
    /\ UNCHANGED <<script, i, t, ret, dirExists, files, browser, playwright,
                   aborted, written>>

\* try: page.keyboard.press("Escape"); time.sleep(0.5)   except: pass
LbEscape ==
    /\ pc = "lb_escape"
    /\ \/ /\ Did(<<Ev("press", "Escape", "ok"), Ev("sleep", "0.5", "ok")>>)
          /\ UNCHANGED anyFail
       \/ /\ Did(<<Ev("press", "Escape", "raised")>>)
          /\ anyFail' = TRUE
    /\ pc' = "lb_shot"
    /\ UNCHANGED <<script, i, t, ret, dirExists, files, browser, playwright,
                   aborted, log, written>>

\* page.screenshot(path=f"{SCREENSHOT_DIR}/leaderboards.png"); print
LbScreenshot ==
    /\ pc = "lb_shot"
    /\ \/ /\ Did(<<Ev("screenshot", "leaderboards.png", "ok")>>)
          /\ Shoot("leaderboards.png")
          /\ log' = Append(log, "Captured leaderboards")
          /\ pc' = "close"
          /\ UNCHANGED <<playwright, aborted, anyFail>>
       \/ /\ Did(<<Ev("screenshot", "leaderboards.png", "raised")>>)
          /\ Uncaught("lb_shot")
          /\ UNCHANGED <<files, written, dirExists, log>>
    /\ UNCHANGED <<script, i, t, ret, browser>>

---------------------------------------------------------------------------
\* Close with browser.close() left out
Close_Skipped ==
    /\ pc = "close"
    /\ playwright' = "stopped"
    /\ pc' = "done"
    /\ IF script = "capture_leaderboard"
       THEN UNCHANGED log
       ELSE log' = Append(log, "Screenshots saved to ")
    /\ UNCHANGED <<script, i, t, ret, dirExists, files, browser, aborted,
                   anyFail, written, step>>

\* browser.close() as the last statement of the `with` body, then (not in
\* capture_leaderboard.py) print(f"\nScreenshots saved to {SCREENSHOT_DIR}");
\* the block is left and the run ends.
Close ==
    /\ pc = "close"
    /\ \/ /\ browser' = "closed"
          /\ playwright' = "stopped"
          /\ pc' = "done"
          /\ IF script = "capture_leaderboard"
             THEN UNCHANGED log
             ELSE log' = Append(log, "Screenshots saved to ")
          /\ UNCHANGED <<aborted, anyFail>>
       \/ /\ Uncaught("close")
          /\ UNCHANGED <<browser, log>>
    /\ UNCHANGED <<script, i, t, ret, dirExists, files, written, step>>

---------------------------------------------------------------------------
Next ==
    \/ MakeDirs
    \/ StartLeaderboard
    \/ Launch
    \/ NewContext
    \/ GotoRoot
    \/ WaitRoot
    \/ Skip
    \/ Continue
    \/ GetStarted
    \/ AfterOnboarding
    \/ TabGoto
    \/ TabWait
    \/ TabScreenshot
    \/ ShotsGoto
    \/ ShotsWait
    \/ ShotsScreenshot
    \/ DismissNotNow
    \/ DismissEscape
    \/ FxGoto
    \/ FxWait
    \/ FxPickEvent
    \/ FxEventWait
    \/ FxPickFighter
    \/ FxFighterWait
    \/ FxScreenshot
    \/ DlGoto
    \/ DlWait
    \/ DlScreenshot
    \/ LbGoto
    \/ LbWait
    \/ LbNotNow
    \/ LbEscape
    \/ LbScreenshot
    \/ Close

Spec == Init /\ [][Next]_vars

---------------------------------------------------------------------------
\* Reading the trace of the current step

\* positions of the calls `op` on `arg`
At(op, arg) ==
    {k \in 1..Len(step.tr) : step.tr[k].op = op /\ step.tr[k].arg = arg}

\* ... that ended with `res`
AtRes(op, arg, res) == {k \in At(op, arg) : step.tr[k].res = res}

\* positions of the calls `op`, whatever their argument
AtOp(op) == {k \in 1..Len(step.tr) : step.tr[k].op = op}

Before(K, L) == \A k \in K : \A l \in L : k < l

OnboardingOver ==
    step.kind = "onboarding" /\ pc \in {"tab_goto", "after_onboarding"}

TabNamesOf(s) == [k \in 1..Len(Tabs(s)) |-> Tabs(s)[k][1]]

NavMsg(name) == "Navigating to " \o name \o "..."

---------------------------------------------------------------------------
---------------------------------------------------------------------------
UnguardedSteps ==
    {"launch", "new_context", "goto_root", "wait_root", "after_onboarding",
     "lb_goto", "lb_wait", "lb_shot", "close"}

---------------------------------------------------------------------------
\* C3: in the named-route loops each route of the list is attempted once, in
\* list order, whatever failed before it, and each finished route has either
\* its "Captured" line or a "Failed" line right after its "Navigating" line.
C3_FailedRouteDoesNotStopLoop ==
    script \in {"capture_all_screens", "capture_screenshots"} =>
        LET names == TabNamesOf(script)
            n == Len(names)
            loopMsgs == {NavMsg(names[k]) : k \in 1..n}
                           \cup {"Captured " \o names[k] : k \in 1..n}
                           \cup {"Failed: "}
            \* what the loop printed: per route, its Navigating line and then
            \* its Captured or Failed line
            lines == SelectSeq(log, LAMBDA m : m \in loopMsgs)
        IN  /\ t <= n + 1
            /\ Len(lines) \in {2 * (t - 1), 2 * (t - 1) + 1}
            /\ Len(lines) <= 2 * n
            /\ pc \in {"fx_goto", "close"} => Len(lines) = 2 * n
            /\ (pc = "done" /\ aborted \in {"", "close"}) => Len(lines) = 2 * n
            /\ \A q \in 1..Len(lines) :
                  LET k == (q + 1) \div 2 IN
                  IF q % 2 = 1
                  THEN lines[q] = NavMsg(names[k])
                  ELSE /\ lines[q] \in {"Captured " \o names[k], "Failed: "}
                       /\ (lines[q] = "Failed: ")
                             <=> (PngOf(names[k]) \notin Range(written))

\* the second route failed, and the third was still captured
C3_Witness ==
    /\ script = "capture_all_screens"
    /\ pc = "fx_goto"
    /\ "home.png" \in Range(written)
    /\ "pick.png" \notin Range(written)
    /\ "stats.png" \in Range(written)

---------------------------------------------------------------------------
\* C4: when no call of the run raised, the run ends having written one
\* picture per route of the script's list, named <route>.png, in list order.
C4_OnePicturePerRoute ==
    (pc = "done" /\ ~anyFail) =>
        LET routeFiles ==
                SelectSeq(written,
                    LAMBDA f : f \notin {"fighter-stats.png", "after_onboarding.png"})
        IN  /\ script = "capture_all_screens" =>
                routeFiles = <<"home.png", "pick.png", "stats.png",
                               "leaderboards.png", "discover.png">>
            /\ script = "capture_screenshots" =>
                routeFiles = <<"home.png", "pick.png", "stats.png",
                               "leaderboards.png">>
            /\ script # "capture_leaderboard" =>
                \A k \in 1..Len(routeFiles) :
                    /\ routeFiles[k] \in FileNames
                    /\ files[routeFiles[k]] = "tab"

\* a run of capture_all_screens without any failure, both fighter pictures
\* included
C4_Witness ==
    /\ pc = "done"
    /\ ~anyFail
    /\ script = "capture_all_screens"
    /\ Len(written) = 7

---------------------------------------------------------------------------
\* C5: no picture is attempted while the output directory is absent.
C5_DirBeforeScreenshot ==
    pc \in {"after_onboarding", "tab_shot", "shots_shot", "fx_shot", "dl_shot",
            "lb_shot"}
        => dirExists

---------------------------------------------------------------------------
\* C6: however the Skip, Continue and Get Started lookups end (hidden,
\* raised, click raised), the onboarding phase makes its one Skip attempt,
\* its five Continue attempts and its one Get Started attempt, in that
\* order, and does not end the run.
C6_OnboardingNeverAborts ==
    step.kind = "onboarding" =>
        LET sk == At("is_visible", "text=Skip")
            co == At("is_visible", "text=CONTINUE")
            gs == At("is_visible", "text=GET STARTED")
        IN  /\ Before(sk, co) /\ Before(co, gs)
            /\ aborted \in {"", "wait_root"}
            /\ pc = "done" => (aborted = "wait_root" /\ sk \cup co \cup gs = {})
            /\ pc = "skip" => (sk = {} /\ co = {} /\ gs = {})
            /\ pc = "continue" => (Cardinality(sk) = 1 /\ gs = {})
            /\ pc = "get_started" =>
                  (Cardinality(sk) = 1 /\ Cardinality(co) = 5 /\ gs = {})
            /\ OnboardingOver =>
                  (Cardinality(sk) = 1 /\ Cardinality(co) = 5
                      /\ Cardinality(gs) = 1)

\* Skip was hidden, a Continue lookup raised, and Get Started was still tried
C6_Witness ==
    /\ OnboardingOver
    /\ AtRes("is_visible", "text=Skip", "hidden") # {}
    /\ AtRes("is_visible", "text=CONTINUE", "raised") # {}
    /\ AtRes("is_visible", "text=CONTINUE", "hidden") # {}
    /\ At("is_visible", "text=GET STARTED") # {}

---------------------------------------------------------------------------
\* C7: the Continue phase makes exactly 5 attempts, so at most 5 clicks; it
\* cannot go on (i never passes 5 and each attempt is one step), and an
\* attempt that finds no control does not end it.
C7_FiveContinueAttempts ==
    step.kind = "onboarding" =>
        LET tries == At("is_visible", "text=CONTINUE")
            clicks == AtRes("click", "text=CONTINUE", "ok")
        IN  /\ i <= 5
            /\ Cardinality(clicks) <= Cardinality(tries)
            /\ Cardinality(tries) <= 5
            /\ pc = "continue" => (Cardinality(tries) = i /\ i < 5
                                      /\ ENABLED Continue)
            /\ (pc = "get_started" \/ OnboardingOver) =>
                  (Cardinality(tries) = 5 /\ i = 5)

\* an attempt found the control hidden and a later attempt clicked it
C7_Witness ==
    /\ OnboardingOver
    /\ \E h \in AtRes("is_visible", "text=CONTINUE", "hidden") :
       \E c \in AtRes("click", "text=CONTINUE", "ok") : h < c

---------------------------------------------------------------------------
\* the picture of the current step has been attempted
Pictured == At("screenshot", step.file) # {}

\* C8 (as claimed): every capture of a named route (in all three scripts)
\* has, between the settle delay and the picture, a lookup of Not Now, which
\* is clicked when visible, and Escape is pressed exactly when Not Now was
\* not activated.
C8_EscapeOnlyAsFallback ==
    (step.kind \in {"tab", "leaderboard"} /\ Pictured) =>
        LET look == At("is_visible", "text=NOT NOW")
            click == AtRes("click", "text=NOT NOW", "ok")
            esc == At("press", "Escape")
        IN  /\ look # {}
            /\ Before(AtOp("sleep") \cap {k \in AtOp("sleep") : step.tr[k].arg \in {"2", "3"}}, look)
            /\ Before(look, At("screenshot", step.file))
            /\ (esc # {}) <=> (click = {})

\* C8 (amended): in capture_all_screens' route loop and in
\* capture_leaderboard, the picture is preceded, after the settle delay, by
\* one lookup of Not Now, which is clicked exactly when it was seen, and
\* then by one press of Escape, made whether or not Not Now was clicked;
\* capture_screenshots' route loop makes no dismissal attempt at all.
C8_DismissThenEscapeAlways ==
    (step.kind \in {"tab", "leaderboard"} /\ Pictured) =>
        LET look == At("is_visible", "text=NOT NOW")
            seen == AtRes("is_visible", "text=NOT NOW", "visible")
            click == At("click", "text=NOT NOW")
            esc == At("press", "Escape")
            settle == At("sleep", "2") \cup At("sleep", "3")
        IN  IF script = "capture_screenshots"
            THEN look = {} /\ click = {} /\ esc = {}
            ELSE /\ Cardinality(look) = 1
                 /\ Cardinality(esc) = 1
                 /\ Cardinality(click) = Cardinality(seen)
                 /\ settle # {}
                 /\ Before(settle, look)
                 /\ Before(look, click)
                 /\ Before(look \cup click, esc)
                 /\ Before(esc, At("screenshot", step.file))

\* a route of capture_all_screens was pictured after Not Now was clicked and
\* Escape pressed as well
C8_Witness ==
    /\ script = "capture_all_screens"
    /\ step.kind = "tab"
    /\ AtRes("screenshot", step.file, "ok") # {}
    /\ AtRes("click", "text=NOT NOW", "ok") # {}
    /\ AtRes("press", "Escape", "ok") # {}

---------------------------------------------------------------------------
\* the first selector of the list, in list order, that the page shows
FirstShown(list, shown) ==
    LET idx == {k \in 1..Len(list) : list[k] \in shown}
    IN  IF idx = {} THEN "none"
        ELSE list[CHOOSE k \in idx : \A l \in idx : k <= l]

\* the exploratory flow has looked at the page for this list
Looked(list) ==
    \E k \in 1..Len(step.tr) :
        /\ step.tr[k].op = "is_visible"
        /\ step.tr[k].arg \in Range(list)
        /\ step.tr[k].res # "raised"

ClicksIn(list) ==
    {k \in AtOp("click") : step.tr[k].arg \in Range(list)}

---------------------------------------------------------------------------
\* the URLs of Urls that contain "fighter", in whatever letter case
FighterUrls == {"/fighter/1", "/Fighter/1"}

\* C10: in a step of a named-route loop or in the deep-link step, the step's
\* file differs from what it was when the step began only if the navigation
\* and the network-idle wait of this step succeeded and then the picture was
\* taken (in the deep-link step: and the URL read contained "fighter", letter
\* case ignored, as the code lower-cases it); a step whose navigation or
\* wait raised leaves its file as it was.
C10_FileOnlyAfterNavAndWait ==
    step.kind \in {"tab", "deeplink"} =>
        LET nav == AtOp("goto")
            navOk == {k \in nav : step.tr[k].res = "ok"}
            waitOk == AtRes("wait", "networkidle", "ok")
            shotOk == AtRes("screenshot", step.file, "ok")
            url == AtOp("url")
        IN  /\ files[step.file] # step.before =>
                 /\ navOk # {} /\ waitOk # {} /\ shotOk # {}
                 /\ Before(navOk, waitOk) /\ Before(waitOk, shotOk)
                 /\ files[step.file] = step.kind
                 /\ step.kind = "deeplink" =>
                       (url # {} /\ \A k \in url : step.tr[k].arg \in FighterUrls)
            /\ shotOk # {} => files[step.file] = step.kind
            /\ (navOk = {} \/ waitOk = {}) => files[step.file] = step.before
            /\ Pictured => (navOk # {} /\ waitOk # {})

\* the deep-link step's wait raised, and the picture of the exploratory flow
\* is still there
C10_Witness ==
    /\ step.kind = "deeplink"
    /\ AtRes("wait", "networkidle", "raised") # {}
    /\ step.before = "explore"
    /\ files["fighter-stats.png"] = "explore"

=============================================================================
